---- MODULE Spec2Model ----
(***************************************************************************)
(* Model of the Library Settings form script                               *)
(* (library/library/doctype/library_settings/library_settings.js).         *)
(*                                                                         *)
(* The script registers one handler, sync_members_button(frm).  The        *)
(* handler opens a confirmation prompt (frappe.confirm) with one           *)
(* continuation (the "yes" function) and no "no" function.  The "yes"      *)
(* function issues one frappe.call with freeze: true and a callback that   *)
(* reloads frm when r.message is truthy.  The host framework is the        *)
(* environment: it fires the handler, answers prompts, completes calls,    *)
(* and keeps the freeze overlay for calls that asked for one.              *)
(***************************************************************************)
EXTENDS Integers, Sequences, FiniteSets, TLC

\* ------------------------------------------------------------------ bounds
MaxClicks == 2

\* -------------------------------------------------------- input universes
\* Open Library Settings form objects the framework can hand to the handler.
Forms == {"f1", "f2"}

\* JavaScript values the server can put in (or leave out of) r.message.
Payloads == {"undefined", "null", "false", "0", "", "true", "synced"}

\* Ways a prompt is closed without "yes".
Declines == {"no", "dismissed"}

\* Ways a remote call ends without a response handled by callback.
Failures == {"network", "permission", "exception"}

\* Order in which the dispatcher runs the callback and removes the overlay;
\* the script does not determine it.
Orders == {"callback_first", "cleanup_first"}

\* ----------------------------------------------------------- script text
ConfirmMessage == "This will sync all students and employees to library members. Continue?"

Method == "library.library.doctype.library_settings.library_settings.sync_students_and_employees"

FreezeMessage == "Syncing members..."

\* JavaScript ToBoolean, as applied by `if (r.message)`.
TruthyLoose(v) == v \notin {"undefined", "null"}

Truthy(v) == v \notin {"undefined", "null", "false", "0", "", "NaN"}

\* The callback of the call: the forms on which reload_doc is invoked, in order.
callbackAlways(frm, r) == <<frm>>

callbackNever(frm, r) == <<>>

callbackOtherForm(frm, r) == IF Truthy(r.message) THEN <<CHOOSE g \in Forms : g # frm>> ELSE <<>>

callback(frm, r) == IF Truthy(r.message) THEN <<frm>> ELSE <<>>

\* The options object given to frappe.call.  Keys the script does not set
\* are "absent"; `error` names what an error handler would do.
CallOptsNoFreeze(frm) ==
    [method |-> Method, args |-> "absent", freeze |-> FALSE,
     freeze_message |-> FreezeMessage, error |-> "absent"]

CallOptsErrorReload(frm) ==
    [method |-> Method, args |-> "absent", freeze |-> TRUE,
     freeze_message |-> FreezeMessage, error |-> "reload"]

CallOptsErrorRetry(frm) ==
    [method |-> Method, args |-> "absent", freeze |-> TRUE,
     freeze_message |-> FreezeMessage, error |-> "retry"]

CallOpts(frm) ==
    [method |-> Method, args |-> "absent", freeze |-> TRUE,
     freeze_message |-> FreezeMessage, error |-> "absent"]

\* The "yes" function given to frappe.confirm: the calls it issues.
ifyesTwice(frm) == <<CallOpts(frm), CallOpts(frm)>>

ifyes(frm) == <<CallOpts(frm)>>

\* The "no" function given to frappe.confirm: the script passes none.
ifnoCalls(frm) == ifyes(frm)

ifno(frm) == <<>>

\* The handler body: what it does synchronously when the framework fires it.
\* prompt = TRUE: opens frappe.confirm; direct: calls issued without a prompt.
sync_members_button_NoConfirm(frm) ==
    [prompt |-> FALSE, message |-> ConfirmMessage, direct |-> ifyes(frm)]

sync_members_button(frm) ==
    [prompt |-> TRUE, message |-> ConfirmMessage, direct |-> <<>>]

\* ------------------------------------------------------------------ state
VARIABLES
    clicks,        \* number of times the handler was fired
    prompts,       \* confirmation prompts, in the order they were opened
    calls,         \* remote calls, in the order they were issued
    freeze_count,  \* calls for which the freeze overlay is up
    formDoc,       \* per form: the version of the record it displays
    formReloads,   \* per form: number of reload_doc invocations
    serverDoc,     \* version of the persisted record
    overlap        \* some click happened while a prompt was open or a call in flight

vars == <<clicks, prompts, calls, freeze_count, formDoc, formReloads, serverDoc, overlap>>

\* ---------------------------------------------------------------- helpers
InFlight == {c \in DOMAIN calls : calls[c].status = "inflight"}

OpenPrompts == {p \in DOMAIN prompts : prompts[p].answer = "open"}

YesPrompts == {p \in DOMAIN prompts : prompts[p].answer = "yes"}

TruthyResolved == {c \in DOMAIN calls : calls[c].status = "resolved" /\ Truthy(calls[c].message)}

CountIn(s, f) == Cardinality({i \in DOMAIN s : s[i] = f})

FreezeRequests(reqs) == Cardinality({i \in DOMAIN reqs : reqs[i].freeze})

RECURSIVE SumReloads(_, _)
SumReloads(cs, S) ==
    IF S = {} THEN 0
    ELSE LET c == CHOOSE x \in S : TRUE
         IN cs[c].reloads + SumReloads(cs, S \ {c})

RECURSIVE SumForms(_, _)
SumForms(fr, S) ==
    IF S = {} THEN 0
    ELSE LET f == CHOOSE x \in S : TRUE
         IN fr[f] + SumForms(fr, S \ {f})

\* frappe.call(opts): the in-flight records for a sequence of requests.
NewCalls(reqs, p, frm) ==
    [i \in DOMAIN reqs |->
        [prompt |-> p, frm |-> frm, method |-> reqs[i].method, args |-> reqs[i].args,
         freeze |-> reqs[i].freeze, error |-> reqs[i].error,
         status |-> "inflight", message |-> "none", reloads |-> 0,
         target |-> "none", frozenAtReload |-> FALSE]]

\* frm.reload_doc() run for each form of `targets`: the form shows the
\* persisted record again.
Reloaded(fd, targets, doc) ==
    [f \in Forms |-> IF CountIn(targets, f) > 0 THEN doc ELSE fd[f]]

ReloadCounted(fr, targets) ==
    [f \in Forms |-> fr[f] + CountIn(targets, f)]

\* ------------------------------------------------------------------- init
Init ==
    /\ clicks = 0
    /\ prompts = <<>>
    /\ calls = <<>>
    /\ freeze_count = 0
    /\ formDoc = [f \in Forms |-> 0]
    /\ formReloads = [f \in Forms |-> 0]
    /\ serverDoc = 0
    /\ overlap = FALSE

\* ---------------------------------------------------------------- actions
\* The framework fires sync_members_button(frm).
Click(f) ==
    /\ clicks < MaxClicks
    /\ LET h == sync_members_button(f)
           p == Len(prompts) + 1
       IN /\ clicks' = clicks + 1
          /\ overlap' = (overlap \/ OpenPrompts # {} \/ InFlight # {})
          /\ prompts' = IF h.prompt
                        THEN Append(prompts, [frm |-> f, message |-> h.message, answer |-> "open"])
                        ELSE prompts
          /\ calls' = calls \o NewCalls(h.direct, 0, f)
          /\ freeze_count' = freeze_count + FreezeRequests(h.direct)
    /\ UNCHANGED <<formDoc, formReloads, serverDoc>>

\* The user answers "yes"; frappe.confirm runs the "yes" function.
ConfirmYes(p) ==
    /\ p \in OpenPrompts
    /\ LET reqs == ifyes(prompts[p].frm)
       IN /\ prompts' = [prompts EXCEPT ![p].answer = "yes"]
          /\ calls' = calls \o NewCalls(reqs, p, prompts[p].frm)
          /\ freeze_count' = freeze_count + FreezeRequests(reqs)
    /\ UNCHANGED <<clicks, formDoc, formReloads, serverDoc, overlap>>

\* The user answers "no" or dismisses the prompt; frappe.confirm runs the
\* "no" function, of which the script gives none.
Decline(p, how) ==
    /\ p \in OpenPrompts
    /\ LET reqs == ifno(prompts[p].frm)
       IN /\ prompts' = [prompts EXCEPT ![p].answer = how]
          /\ calls' = calls \o NewCalls(reqs, p, prompts[p].frm)
          /\ freeze_count' = freeze_count + FreezeRequests(reqs)
    /\ UNCHANGED <<clicks, formDoc, formReloads, serverDoc, overlap>>

\* The call returns a response: the server may have changed the persisted
\* record, the dispatcher runs callback(r) and takes the overlay down.
Resolve(c, msg, order, bump) ==
    /\ c \in InFlight
    /\ LET r == [message |-> msg]
           targets == callback(calls[c].frm, r)
           dec == IF calls[c].freeze THEN 1 ELSE 0
           after == freeze_count - dec
           seen == IF order = "callback_first" THEN freeze_count > 0 ELSE after > 0
       IN /\ serverDoc' = serverDoc + bump
          /\ calls' = [calls EXCEPT ![c].status = "resolved",
                                    ![c].message = msg,
                                    ![c].reloads = Len(targets),
                                    ![c].target = IF Len(targets) > 0 THEN targets[1] ELSE "none",
                                    ![c].frozenAtReload = (Len(targets) > 0 /\ seen)]
          /\ formDoc' = Reloaded(formDoc, targets, serverDoc')
          /\ formReloads' = ReloadCounted(formReloads, targets)
          /\ freeze_count' = after
    /\ UNCHANGED <<clicks, prompts, overlap>>

\* The call fails: the dispatcher runs the error handler of the options, if
\* there is one, and takes the overlay down.  callback is not run.
Fail(c, why) ==
    /\ c \in InFlight
    /\ LET dec == IF calls[c].freeze THEN 1 ELSE 0
           targets == IF calls[c].error = "reload" THEN <<calls[c].frm>> ELSE <<>>
           again == IF calls[c].error = "retry" /\ Len(calls) < 2 * MaxClicks
                    THEN <<CallOpts(calls[c].frm)>> ELSE <<>>
           failed == [calls EXCEPT ![c].status = "failed",
                                   ![c].message = why,
                                   ![c].reloads = Len(targets)]
       IN /\ calls' = failed \o NewCalls(again, calls[c].prompt, calls[c].frm)
          /\ formDoc' = Reloaded(formDoc, targets, serverDoc)
          /\ formReloads' = ReloadCounted(formReloads, targets)
          /\ freeze_count' = freeze_count - dec + FreezeRequests(again)
    /\ UNCHANGED <<clicks, prompts, serverDoc, overlap>>

Next ==
    \/ \E f \in Forms : Click(f)
    \/ \E p \in DOMAIN prompts : ConfirmYes(p)
    \/ \E p \in DOMAIN prompts, how \in Declines : Decline(p, how)
    \/ \E c \in DOMAIN calls, msg \in Payloads, order \in Orders, bump \in {0, 1} :
          Resolve(c, msg, order, bump)
    \/ \E c \in DOMAIN calls, why \in Failures : Fail(c, why)

Spec == Init /\ [][Next]_vars

\* ------------------------------------------------------------ properties
FalsyListed == {"undefined", "null", "false", "0", ""}

TruthyListed == {"true", "synced"}

\* C1: every click presents a prompt, and a remote call is issued only by
\* the step in which an open prompt is answered "yes"; every issued call
\* belongs to a prompt of an earlier click that was answered "yes".
C1_State ==
    /\ Len(prompts) = clicks
    /\ \A c \in DOMAIN calls :
          /\ calls[c].prompt \in DOMAIN prompts
          /\ prompts[calls[c].prompt].answer = "yes"

C1_Step ==
    /\ clicks' > clicks =>
          /\ Len(prompts') = Len(prompts) + 1
          /\ prompts'[Len(prompts')].answer = "open"
          /\ calls' = calls
    /\ Len(calls') > Len(calls) =>
          \E p \in OpenPrompts :
             /\ prompts'[p].answer = "yes"
             /\ \A i \in (DOMAIN calls') \ (DOMAIN calls) : calls'[i].prompt = p

ThmC1 == [](C1_State) /\ [][C1_Step]_vars

WitC1 == \E c \in InFlight : calls[c].prompt \in YesPrompts

\* C2: a step that declines or dismisses an open prompt issues no call and
\* reloads no form, and no call ever belongs to a declined prompt.
C2_Step ==
    \A p \in OpenPrompts :
       prompts'[p].answer \in Declines =>
          /\ calls' = calls
          /\ formReloads' = formReloads
          /\ formDoc' = formDoc

C2_State ==
    \A c \in DOMAIN calls :
       calls[c].prompt \in DOMAIN prompts => prompts[calls[c].prompt].answer \notin Declines

ThmC2 == [](C2_State) /\ [][C2_Step]_vars

WitC2 == \E p \in DOMAIN prompts : prompts[p].answer \in Declines

\* C3: a call resolved with a truthy r.message has reload_doc invoked
\* exactly once for it.
ThmC3 ==
    \A c \in DOMAIN calls :
       (calls[c].status = "resolved" /\ calls[c].message \in TruthyListed) =>
          calls[c].reloads = 1

WitC3 ==
    \E c \in DOMAIN calls :
       calls[c].status = "resolved" /\ calls[c].message \in TruthyListed /\ calls[c].reloads = 1

\* C4: a call resolved with an absent, null, false, 0 or empty r.message
\* has reload_doc invoked zero times for it.
ThmC4 ==
    \A c \in DOMAIN calls :
       (calls[c].status = "resolved" /\ calls[c].message \in FalsyListed) =>
          calls[c].reloads = 0

WitC4 ==
    \A v \in FalsyListed \ {"undefined", "null", ""} :
       \E c \in DOMAIN calls : calls[c].status = "resolved" /\ calls[c].message = v

\* C5: a step in which a call fails reloads nothing, changes no form,
\* issues no call and opens no prompt; a failed call has no reload.
C5_Step ==
    \A c \in InFlight :
       calls'[c].status = "failed" =>
          /\ formReloads' = formReloads
          /\ formDoc' = formDoc
          /\ Len(calls') = Len(calls)
          /\ prompts' = prompts
          /\ clicks' = clicks

C5_State == \A c \in DOMAIN calls : calls[c].status = "failed" => calls[c].reloads = 0

ThmC5 == [](C5_State) /\ [][C5_Step]_vars

WitC5 == \E c \in DOMAIN calls : calls[c].status = "failed" /\ calls[c].message = "permission"

\* C6 (as stated): the freeze indicator is off while a prompt is open, on
\* while a call is in flight, off when none is, and off when reload runs.
C6_Original ==
    /\ OpenPrompts # {} => freeze_count = 0
    /\ InFlight # {} => freeze_count > 0
    /\ InFlight = {} => freeze_count = 0
    /\ \A c \in DOMAIN calls : ~calls[c].frozenAtReload

\* C6 (amended): the freeze indicator is on in exactly the states where a
\* call issued by the handler is in flight.
ThmC6 == (freeze_count > 0) <=> (InFlight # {})

WitC6 ==
    /\ InFlight # {}
    /\ freeze_count > 0
    /\ \E c \in DOMAIN calls : calls[c].status # "inflight"

\* C7 (as stated): at most one remote call is in flight at any time.
C7_Original == Cardinality(InFlight) <= 1

\* C7 (amended): each affirmative confirmation has at most one call in
\* flight, and at most one call is in flight as long as no click came while
\* an earlier prompt was open or an earlier call in flight.
ThmC7 ==
    /\ \A p \in DOMAIN prompts : Cardinality({c \in InFlight : calls[c].prompt = p}) <= 1
    /\ ~overlap => Cardinality(InFlight) <= 1

WitC7 == ~overlap /\ clicks = 2 /\ InFlight # {}

\* C8: every affirmative confirmation has exactly one call, every call has
\* the fixed method name and no arguments, and a call is issued only in a
\* step that adds an affirmative confirmation.
C8_State ==
    /\ \A p \in YesPrompts : Cardinality({c \in DOMAIN calls : calls[c].prompt = p}) = 1
    /\ Len(calls) = Cardinality(YesPrompts)
    /\ \A c \in DOMAIN calls :
          /\ calls[c].method = "library.library.doctype.library_settings.library_settings.sync_students_and_employees"
          /\ calls[c].args = "absent"

C8_Step ==
    Len(calls') # Len(calls) =>
       /\ Len(calls') = Len(calls) + 1
       /\ \E p \in OpenPrompts : prompts'[p].answer = "yes"

ThmC8 == [](C8_State) /\ [][C8_Step]_vars

WitC8 ==
    /\ \E c \in DOMAIN calls : calls[c].status = "failed"
    /\ \E c \in DOMAIN calls : calls[c].status = "resolved" /\ calls[c].message \in FalsyListed

\* C9: reloads <= truthy-resolved calls <= issued calls <= affirmative
\* confirmations <= prompts <= clicks, and a call with a reload is resolved
\* with a truthy result.
ThmC9 ==
    /\ SumForms(formReloads, Forms) <= Cardinality(TruthyResolved)
    /\ Cardinality(TruthyResolved) <= Len(calls)
    /\ Len(calls) <= Cardinality(YesPrompts)
    /\ Cardinality(YesPrompts) <= Len(prompts)
    /\ Len(prompts) <= clicks
    /\ \A c \in DOMAIN calls :
          calls[c].reloads > 0 =>
             calls[c].status = "resolved" /\ calls[c].message \in TruthyListed

WitC9 ==
    /\ SumForms(formReloads, Forms) = 1
    /\ Cardinality(TruthyResolved) = 1
    /\ Len(calls) = 2
    /\ InFlight # {}

\* C10: a reload runs on the form whose button was clicked, and a form's
\* displayed record changes only in a step that reloads that form, to the
\* persisted record.
C10_State ==
    /\ \A c \in DOMAIN calls :
          calls[c].reloads > 0 =>
             /\ calls[c].prompt \in DOMAIN prompts
             /\ calls[c].target = prompts[calls[c].prompt].frm
    /\ \A f \in Forms :
          formReloads[f] =
             SumReloads(calls, {c \in DOMAIN calls :
                                  /\ calls[c].prompt \in DOMAIN prompts
                                  /\ prompts[calls[c].prompt].frm = f})

C10_Step ==
    \A f \in Forms :
       formDoc'[f] # formDoc[f] =>
          /\ formReloads'[f] = formReloads[f] + 1
          /\ formDoc'[f] = serverDoc'
          /\ \E c \in InFlight :
                /\ calls'[c].status = "resolved"
                /\ prompts[calls[c].prompt].frm = f

ThmC10 == [](C10_State) /\ [][C10_Step]_vars

WitC10 ==
    \E f \in Forms, g \in Forms :
       /\ f # g
       /\ formReloads[f] = 1 /\ formDoc[f] = 1
       /\ formReloads[g] = 0 /\ formDoc[g] = 0
       /\ \E p \in DOMAIN prompts : prompts[p].frm = g

====
